---- MODULE Spec2Model ----
(***************************************************************************)
(* ayude: glTF scene import (src/import_gltf.rs) and the transform walk of *)
(* the renderers (src/bin/ayude.rs, src/graphics/mod.rs).                  *)
(*                                                                         *)
(* Ids are zero-based as in the source; sequences are one-based, so the    *)
(* element with id i of a sequence s is s[i + 1] (operator At).            *)
(* Option<T> is a sequence of length at most one: None is <<>>, Some(x) is *)
(* <<x>>.                                                                  *)
(***************************************************************************)
EXTENDS Integers, Sequences, FiniteSets, TLC

VARIABLES
    doc,            \* the gltf document being imported (input, never written)
    pc,             \* position in Importer::import_default_scene
    blob,           \* Importer.blob
    buffers,        \* Importer.buffers
    images,         \* Importer.images
    textures,       \* Importer.textures (dedup cache)
    materials,      \* Importer.materials (dedup cache)
    meshes,         \* Importer.meshes (dedup cache)
    node_stack,     \* local node_stack of import_default_scene
    nodes,          \* local nodes: sequence of <<node_index, Node>>
    root_nodes,     \* local root_nodes
    gfx,            \* GraphicsContext: resources created so far
    result,         \* Option<Result<Scene, ImportGltfError>> returned by the import
    rendering_skin, \* World.rendering_skin
    rpc,            \* position in World::render
    the_sphere,     \* World.the_sphere, the marker drawn at each joint
    rscene,         \* which Scene render_scene is running on
    rnode,          \* index of the node the loop of render_scene is at
    snode,          \* index of the node the skin loop of World::render is at
    rjoint,         \* index of the joint the skin loop is at
    current,        \* `current` of the transform walk (index into scene.nodes)
    transform,      \* `transform` of the transform walk
    walked,         \* ids the running walk multiplied in, in order
    skeleton_transform, \* `skeleton_transform` of World::render
    drawn,          \* draw operations and joint placements issued so far
    decoded,        \* calls of image::load_from_memory_with_format made so far
    sorted_as,      \* what sort_unstable_by did the last time it ran
    first,          \* what an earlier import of the same document returned
    other,          \* a second call of import_default_scene in progress: its Importer
    switches,       \* how often the processor turned from one call to the other
    movement,       \* movement: <<x, y>>, the WASD input
    camera_position,\* the camera's position on the ground plane
    input           \* the key event delivered last

vars == <<doc, pc, blob, buffers, images, textures, materials, meshes, node_stack,
          nodes, root_nodes, gfx, result, rendering_skin, rpc, the_sphere, rscene,
          rnode, snode, rjoint, current, transform, walked, skeleton_transform, drawn,
          decoded, sorted_as, first, other, switches, movement, camera_position, input>>

peerVars == <<other, switches>>

worldVars == <<movement, camera_position, input>>

importVars == <<pc, blob, buffers, images, textures, materials, meshes, node_stack,
                nodes, root_nodes, gfx, result, decoded, sorted_as, first>>

renderVars == <<rpc, the_sphere, rscene, rnode, snode, rjoint, current, transform,
                walked, skeleton_transform, drawn>>

\* ------------------------------------------------------------------ bounds

NumNodes == 3       \* nodes of an enumerated document
MaxRecords == 6     \* node records the traversal may push before the model stops it
MaxWalk == 4        \* ancestors one transform walk may visit before the model stops it
MaxDrive == 2       \* how far from the origin update may drive the camera, per axis
MaxSwitches == 2    \* turns from one import call to the other while both are in progress

\* --------------------------------------------------------------- constants

U16Limit == 65536   \* u16 holds 0 .. 65535

\* ----------------------------------------------------------------- helpers

None == <<>>
Some(x) == <<x>>
IsSome(o) == Len(o) = 1
Unwrap(o) == o[1]

At(s, i) == s[i + 1]
InRange(s, i) == i >= 0 /\ i < Len(s)
Ids(s) == 0 .. (Len(s) - 1)

SetMin(S) == CHOOSE m \in S : \A x \in S : m <= x

RECURSIVE Ascending(_)
Ascending(S) == IF S = {} THEN <<>>
                ELSE LET m == SetMin(S) IN <<m>> \o Ascending(S \ {m})

Count(s, x) == Cardinality({k \in 1 .. Len(s) : s[k] = x})

\* ---------------------------------------------------------------- matrices
\* A glam::Mat4 is four columns; cols[c][r] is column c, row r.  The entries
\* are rationals with one common denominator `over`, so that the scale by 0.25
\* of World::render is exact.

Mat4(cols) == [cols |-> cols, over |-> 1]

Identity == Mat4(<< <<1, 0, 0, 0>>, <<0, 1, 0, 0>>, <<0, 0, 1, 0>>, <<0, 0, 0, 1>> >>)

Translation(x, y, z) ==
    Mat4(<< <<1, 0, 0, 0>>, <<0, 1, 0, 0>>, <<0, 0, 1, 0>>, <<x, y, z, 1>> >>)

Scaling(x, y, z) ==
    Mat4(<< <<x, 0, 0, 0>>, <<0, y, 0, 0>>, <<0, 0, z, 0>>, <<0, 0, 0, 1>> >>)

RotationZ == Mat4(<< <<0, 1, 0, 0>>, <<-1, 0, 0, 0>>, <<0, 0, 1, 0>>, <<0, 0, 0, 1>> >>)

\* Mat4::from_scale(Vec3::new(0.25, 0.25, 0.25))
QuarterScale ==
    [cols |-> << <<1, 0, 0, 0>>, <<0, 1, 0, 0>>, <<0, 0, 1, 0>>, <<0, 0, 0, 4>> >>,
     over |-> 4]

\* a.mul_mat4(&b), also written a * b: the matrix product
mul_mat4(a, b) ==
    [cols |-> [c \in 1 .. 4 |-> [r \in 1 .. 4 |->
                  a.cols[1][r] * b.cols[c][1] + a.cols[2][r] * b.cols[c][2]
                  + a.cols[3][r] * b.cols[c][3] + a.cols[4][r] * b.cols[c][4]]],
     over |-> a.over * b.over]

\* --------------------------------------------------------------- documents
\* A document is what gltf::Gltf::open hands over: index-addressed arrays of
\* nodes, meshes, materials, textures, images and buffers, the default scene's
\* roots and the optional embedded blob.  The gltf crate checks that every
\* index is in range; it does not check that the child relation is a tree.

\* node i's local transform: distinct matrices that do not commute
NodeTransform(i) ==
    CASE i % 3 = 0 -> Translation(1, 2, 3)
      [] i % 3 = 1 -> RotationZ
      [] OTHER     -> Scaling(2, 3, 5)

Primitive(indices, material) ==
    [positions |-> Some(3), normals |-> Some(3), uvs |-> Some(3),
     indices |-> Some(indices), material |-> material]

MaterialDesc(normal, diffuse) ==
    [normal |-> normal, diffuse |-> diffuse, base_color_factor |-> <<1, 1, 1, 1>>]

TextureRefs == {None, Some(0), Some(1)}

IndexLists == { <<0, 1, 2>>, <<0, 65535, 1>>, <<65536, 1, 2>>, <<2, 65537, 0>> }

PngMagic == 137
JpegMagic == 255

\* gltf::buffer::Source: Bin, or Uri(uri)
BinBuffer == [source |-> "Bin", uri |-> <<>>]
UriBuffer(uri) == [source |-> "Uri", uri |-> uri]

\* gltf::image::Source: View { view, mime_type }, or Uri { uri, mime_type }
ViewImage(buffer, offset, length, mime) ==
    [source |-> "View", uri |-> <<>>, buffer |-> buffer, offset |-> offset,
     length |-> length, mime_type |-> Some(mime)]
UriImage(uri, mime_type) ==
    [source |-> "Uri", uri |-> uri, buffer |-> 0, offset |-> 0, length |-> 0,
     mime_type |-> mime_type]

\* gltf::texture::Sampler as the file declares it: the wrapping mode per axis
\* and the minification and magnification filter, each of them optional
Sampler(wrap_s, wrap_t, min_filter, mag_filter) ==
    [wrap_s |-> wrap_s, wrap_t |-> wrap_t, min_filter |-> min_filter,
     mag_filter |-> mag_filter]

DocResources(mats, indices) ==
    [meshes    |-> << <<Primitive(indices, Some(0)), Primitive(<<0, 1, 2>>, Some(1))>>,
                      <<Primitive(<<2, 1, 0>>, None)>> >>,
     materials |-> mats,
     textures  |-> << [source |-> 0, sampler |-> Sampler(None, Some("ClampToEdge"),
                                                         None, Some("Nearest"))],
                      [source |-> 1, sampler |-> Sampler(None, None, None, None)] >>,
     images    |-> << ViewImage(0, 0, 2, "image/png"), ViewImage(0, 2, 2, "image/jpeg") >>,
     buffers   |-> << BinBuffer >>,
     blob      |-> Some(<<PngMagic, 7, JpegMagic, 9>>),
     files     |-> <<>>,
     file_name |-> <<"samples", "/", "scene.gltf">>,
     default_scene |-> TRUE]

SharedTextureMaterials == << MaterialDesc(None, Some(0)), MaterialDesc(Some(0), Some(1)) >>

\* what the nodes carry: nodes 0 and 1 share mesh 0, the last node has no
\* mesh, the others have mesh 1; node 0 has a skin without a skeleton root,
\* node 1 a skin whose skeleton root is the last node
NodeMesh(i) ==
    IF i = NumNodes - 1 THEN None ELSE IF i <= 1 THEN Some(0) ELSE Some(1)

NodeSkin(i) ==
    CASE i = 0 -> Some([joints |-> <<1, NumNodes - 1>>, skeleton |-> None])
      [] i = 1 -> Some([joints |-> <<NumNodes - 1, 0>>, skeleton |-> Some(NumNodes - 1)])
      [] OTHER -> None

\* the base hierarchy: node i is a root (choice NumNodes), in no scene at all
\* (choice NumNodes + 1) or a child of node choice[i]
ParentChoices ==
    {f \in [0 .. NumNodes - 1 -> 0 .. NumNodes + 1] : \A i \in 0 .. NumNodes - 1 : f[i] # i}

\* at most one child reference on top of the base hierarchy: <<u, v>> lists v
\* once more, at the end of the children of u (a second parent, a repeated
\* child, a root that is also a child, or a cycle)
ExtraEdges ==
    {<<>>} \cup {<<e>> : e \in (0 .. NumNodes - 1) \X (0 .. NumNodes - 1)}

RECURSIVE ExtraChildren(_, _)
ExtraChildren(e, u) ==
    IF e = <<>> THEN <<>>
    ELSE (IF e[1][1] = u THEN <<e[1][2]>> ELSE <<>>) \o ExtraChildren(Tail(e), u)

GraphNodes(choice, extra) ==
    [k \in 1 .. NumNodes |->
        [children  |-> Ascending({c \in 0 .. NumNodes - 1 : choice[c] = k - 1})
                          \o ExtraChildren(extra, k - 1),
         transform |-> NodeTransform(k - 1),
         mesh      |-> NodeMesh(k - 1),
         skin      |-> NodeSkin(k - 1)]]

GraphDoc(choice, extra) ==
    [nodes |-> GraphNodes(choice, extra),
     roots |-> Ascending({c \in 0 .. NumNodes - 1 : choice[c] = NumNodes})]
    @@ DocResources(SharedTextureMaterials, <<0, 1, 2>>)

GraphDocs ==
    {GraphDoc(choice, extra) : choice \in ParentChoices, extra \in ExtraEdges}

\* one fixed tree (node 0 the root of all others), every resource varied
FanChoice == [i \in 0 .. NumNodes - 1 |-> IF i = 0 THEN NumNodes ELSE 0]

ResourceDocs ==
    {[nodes |-> GraphNodes(FanChoice, <<>>),
      roots |-> <<0>>] @@ DocResources(<<MaterialDesc(n0, d0), MaterialDesc(n1, d1)>>, indices) :
        n0 \in TextureRefs, d0 \in TextureRefs, n1 \in TextureRefs, d1 \in TextureRefs,
        indices \in IndexLists}

Documents == GraphDocs \cup ResourceDocs

\* ---- documents whose buffers and images come from every kind of source

\* the fan tree with the resources every GraphDoc has
FanDoc ==
    [nodes |-> GraphNodes(FanChoice, <<>>), roots |-> <<0>>]
    @@ DocResources(SharedTextureMaterials, <<0, 1, 2>>)

\* the files next to the document
SceneFiles ==
    << [name |-> <<"scene", ".bin">>, bytes |-> <<PngMagic, 7, JpegMagic, 9>>],
       [name |-> <<"tex", ".png">>,   bytes |-> <<PngMagic, 5>>],
       [name |-> <<"tex", ".jpg">>,   bytes |-> <<JpegMagic, 6>>],
       [name |-> <<"tex", ".jpeg">>,  bytes |-> <<JpegMagic, 8>>],
       [name |-> <<"fake", ".png">>,  bytes |-> <<JpegMagic, 4>>],
       [name |-> <<"tex", ".bmp">>,   bytes |-> <<66, 1>>] >>

\* "data:<mime>;base64,<payload>" and the ways its prefix can be malformed
DataUri(mime, payload) == <<"data", ":", mime, ";", "base64", ",", payload>>
DataUriNoSemicolon(mime, payload) == <<"data", ":", mime, ",", payload>>
DataUriNoComma(mime) == <<"data", ":", mime, ";", "base64">>
DataUriBare(payload) == <<"data", ":", payload>>

\* "iQc=" and "/wk=" are base64, "!!" is not, "iQc=!" is base64 followed by junk
Payloads == {"iQc=", "/wk=", "!!", "iQc=!"}

BufferUris ==
    {DataUri("application/octet-stream", p) : p \in Payloads}
    \cup {DataUriNoSemicolon("application/octet-stream", p) : p \in Payloads}
    \cup {DataUriNoComma("application/octet-stream"), DataUriBare("iQc="),
          <<"scene", ".bin">>, <<"gone", ".bin">>}

BufferDescs == {BinBuffer} \cup {UriBuffer(u) : u \in BufferUris}

\* one buffer of any kind, or a buffer that resolves followed by one of any kind
BufferLists ==
    {<<b>> : b \in BufferDescs}
    \cup {<<a, b>> : a \in {BinBuffer, UriBuffer(<<"scene", ".bin">>),
                            UriBuffer(DataUri("application/octet-stream", "iQc="))},
                     b \in BufferDescs}

BufferDocs ==
    {[FanDoc EXCEPT !.buffers = list, !.blob = section, !.files = SceneFiles] :
        list \in BufferLists, section \in {None, Some(<<PngMagic, 7, JpegMagic, 9>>)}}

ImageUris ==
    {<<"tex", ".png">>, <<"tex", ".jpg">>, <<"tex", ".jpeg">>, <<"tex", ".bmp">>,
     <<"fake", ".png">>, <<"gone", ".png">>,
     DataUri("image/png", "iQc="), DataUri("image/jpeg", "/wk="), DataUri("image/bmp", "iQc="),
     DataUri("image/png", "!!"), DataUriNoSemicolon("image/png", "iQc="),
     DataUriNoComma("image/png")}

DeclaredMimes == {None, Some("image/png"), Some("image/jpeg"), Some("image/gif")}

ImageDescs ==
    {UriImage(u, m) : u \in ImageUris, m \in DeclaredMimes}
    \cup {ViewImage(0, offset, length, m) :
             offset \in {0, 2, 3}, length \in {1, 2},
             m \in {"image/png", "image/jpeg", "image/gif"}}

ImageDocs ==
    {[FanDoc EXCEPT !.images = <<i0, i1>>, !.files = SceneFiles] :
        i0 \in ImageDescs,
        i1 \in {ViewImage(0, 2, 2, "image/jpeg"), ViewImage(0, 1, 4, "image/png"),
                UriImage(<<"tex", ".bmp">>, None)}}

\* ---- documents whose primitives lack attributes, or have them of unequal length

PrimitiveWith(positions, normals, uvs, indices) ==
    [positions |-> positions, normals |-> normals, uvs |-> uvs, indices |-> indices,
     material |-> None]

Primitives ==
    {PrimitiveWith(p, n, u, i) :
        p \in {None, Some(3)}, n \in {None, Some(3), Some(2)},
        u \in {None, Some(3), Some(2)}, i \in {None, Some(<<0, 1, 2>>)}}

\* the primitive as the first or the second of mesh 0, or as the one of mesh 1
MeshLists(primitive) ==
    { << <<primitive, Primitive(<<0, 1, 2>>, Some(1))>>, <<Primitive(<<2, 1, 0>>, None)>> >>,
      << <<Primitive(<<0, 1, 2>>, Some(0)), primitive>>, <<Primitive(<<2, 1, 0>>, None)>> >>,
      << <<Primitive(<<0, 1, 2>>, Some(0)), Primitive(<<0, 1, 2>>, Some(1))>>, <<primitive>> >> }

MeshDocs ==
    {[FanDoc EXCEPT !.meshes = list] :
        list \in UNION {MeshLists(primitive) : primitive \in Primitives}}

\* ---- documents with more nodes than a u16 counts
\* Of such a document the model keeps the first NumNodes nodes and the two
\* around the limit, 65535 and 65536; the nodes between are in no scene,
\* nobody's child and nobody's joint, so the import never looks at them.

LastU16 == U16Limit - 1
WideIds == (0 .. NumNodes - 1) \cup {LastU16, U16Limit}

WideNodes(children, joints, skeleton) ==
    [k \in {i + 1 : i \in WideIds} |->
        [children  |-> IF k = 1 THEN children ELSE <<>>,
         transform |-> NodeTransform(k - 1),
         mesh      |-> IF k = 1 THEN Some(0) ELSE None,
         skin      |-> IF k = 2 THEN Some([joints |-> joints, skeleton |-> skeleton])
                       ELSE None]]

WideDocs ==
    {[FanDoc EXCEPT !.nodes = WideNodes(children, joints, skeleton), !.roots = roots] :
        roots \in {<<0>>, <<0, LastU16>>, <<0, U16Limit>>, <<U16Limit, 0>>},
        children \in {<<>>, <<1>>, <<LastU16>>, <<U16Limit>>, <<1, U16Limit>>},
        joints \in {<<1>>, <<LastU16>>, <<U16Limit, 1>>},
        skeleton \in {None, Some(LastU16), Some(U16Limit)}}

\* documents imported two at a time: the fan document, the same tree with
\* images from files and other materials, with another embedded section, and
\* with an image file that does not exist
PairDocs ==
    {FanDoc,
     [FanDoc EXCEPT !.images = <<UriImage(<<"tex", ".png">>, None),
                                 UriImage(<<"tex", ".jpg">>, None)>>,
                    !.materials = <<MaterialDesc(Some(1), Some(0)), MaterialDesc(None, Some(1))>>,
                    !.files = SceneFiles],
     [FanDoc EXCEPT !.blob = Some(<<PngMagic, 1, JpegMagic, 2>>)],
     [FanDoc EXCEPT !.images = <<UriImage(<<"tex", ".png">>, None),
                                 UriImage(<<"none", ".png">>, None)>>,
                    !.files = SceneFiles]}

\* the fan document opened by a file name without a directory part, and a
\* document that names no default scene
EntryDocs ==
    {[FanDoc EXCEPT !.file_name = <<"scene.gltf">>],
     [FanDoc EXCEPT !.default_scene = FALSE]}

ImportDocs == BufferDocs \cup ImageDocs \cup MeshDocs \cup WideDocs \cup EntryDocs


\* ------------------------------------------------------------------ errors

Ok(v, g) == [kind |-> "ok", value |-> v, gfx |-> g]
Err(e, g) == [kind |-> "err", error |-> e, gfx |-> g]
Panic(g) == [kind |-> "panic", gfx |-> g]

\* ------------------------------------------------------- graphics resources

\* GraphicsContext::create_texture: a new GPU texture behind a fresh Rc
create_texture(g, texture_index, image) ==
    LET handle == Len(g.textures)
    IN  Ok([texture |-> handle, width |-> image.width, height |-> image.height],
           [g EXCEPT !.textures = Append(@, [texture_index |-> texture_index,
                                             texels |-> image.data])])

\* GraphicsContext::create_mesh: new vertex and index buffers behind a fresh Rc
create_mesh(g, mesh_index, primitive_index, vertices, indices, material) ==
    LET handle == Len(g.meshes)
    IN  Ok([inner |-> handle, index_count |-> Len(indices), material |-> material],
           [g EXCEPT !.meshes = Append(@, [mesh_index |-> mesh_index,
                                           primitive_index |-> primitive_index,
                                           vertices |-> vertices,
                                           indices |-> indices])])

\* ------------------------------------------------------- resource builders

\* `it as u16`
AsU16(x) == x % U16Limit

\* `let sampler = texture.sampler();` is read and then unused (`// todo!`): the
\* Texture is created from the image alone
import_gltf_texture(g, texture_index) ==
    IF ~InRange(textures, texture_index)
    THEN Err(<<"UnknownTextureIndex", texture_index>>, g)
    ELSE IF IsSome(At(textures, texture_index))
    THEN Ok(Unwrap(At(textures, texture_index)), g)
    ELSE IF ~InRange(images, At(doc.textures, texture_index).source)
    THEN Err(<<"UnknownImageIndex", At(doc.textures, texture_index).source>>, g)
    ELSE create_texture(g, texture_index, At(images, At(doc.textures, texture_index).source))

\* `match .. { Some(info) => Some(self.import_gltf_texture(info.texture())?), None => None }`
SomeOf(r) == IF r.kind = "ok" THEN Ok(Some(r.value), r.gfx) ELSE r

import_texture_info(g, info) ==
    IF IsSome(info) THEN SomeOf(import_gltf_texture(g, Unwrap(info))) ELSE Ok(None, g)

\* the gltf::Material of a primitive: material.index() is None for the default
\* material, which has no textures
MaterialOf(material) ==
    IF IsSome(material) THEN At(doc.materials, Unwrap(material))
    ELSE MaterialDesc(None, None)

\* import_gltf_material once the normal texture and then the diffuse texture
\* were asked for
material_built(m, normal, diffuse) ==
    IF diffuse.kind # "ok" THEN diffuse
    ELSE Ok([normal |-> normal.value, diffuse |-> diffuse.value,
             base_diffuse_color |-> m.base_color_factor], diffuse.gfx)

material_with_normal(m, normal) ==
    IF normal.kind # "ok" THEN normal
    ELSE material_built(m, normal, import_texture_info(normal.gfx, m.diffuse))

import_gltf_material(g, material) ==
    IF IsSome(material) /\ ~InRange(materials, Unwrap(material))
    THEN Err(<<"UnknownMaterialIndex", Unwrap(material)>>, g)
    ELSE IF IsSome(material) /\ IsSome(At(materials, Unwrap(material)))
    THEN Ok(Unwrap(At(materials, Unwrap(material))), g)
    ELSE material_with_normal(MaterialOf(material),
                              import_texture_info(g, MaterialOf(material).normal))

\* `.into_u32().map(|it| it as u16).collect()`
narrow_indices(indices) == [k \in 1 .. Len(indices) |-> AsU16(indices[k])]

\* the end of one pass of `for primitive in mesh.primitives()`: create_mesh with
\* the material just built
primitive_mesh(mesh_index, primitive_index, primitive, material) ==
    IF material.kind # "ok" THEN material
    ELSE create_mesh(material.gfx, mesh_index, primitive_index,
                     Unwrap(primitive.positions),
                     narrow_indices(Unwrap(primitive.indices)), material.value)

RequiredMeshPropertyMissing(g, name, mesh_index, primitive_index) ==
    Err(<<"RequiredMeshPropertyMissing", name, mesh_index, primitive_index>>, g)

\* one pass of the `for primitive in mesh.primitives()` body
primitive_pass(g, mesh_index, primitive_index, primitive) ==
    IF ~IsSome(primitive.positions)
    THEN RequiredMeshPropertyMissing(g, "positions", mesh_index, primitive_index)
    ELSE IF ~IsSome(primitive.normals)
    THEN RequiredMeshPropertyMissing(g, "normals", mesh_index, primitive_index)
    ELSE IF ~IsSome(primitive.uvs)
    THEN RequiredMeshPropertyMissing(g, "uvs", mesh_index, primitive_index)
    ELSE IF Unwrap(primitive.normals) < Unwrap(primitive.positions)
            \/ Unwrap(primitive.uvs) < Unwrap(primitive.positions)
    THEN Panic(g)
    ELSE IF ~IsSome(primitive.indices)
    THEN RequiredMeshPropertyMissing(g, "indices", mesh_index, primitive_index)
    ELSE primitive_mesh(mesh_index, primitive_index, primitive,
                        import_gltf_material(g, primitive.material))

import_gltf_primitive(g, mesh_index, primitive_index) ==
    primitive_pass(g, mesh_index, primitive_index,
                   At(At(doc.meshes, mesh_index), primitive_index))

RECURSIVE import_gltf_primitives(_, _, _, _)

\* `primitives.push(mesh)` and on to the next primitive
primitive_pushed(mesh_index, primitive_index, primitives, mesh) ==
    IF mesh.kind # "ok" THEN mesh
    ELSE import_gltf_primitives(mesh.gfx, mesh_index, primitive_index + 1,
                                Append(primitives, mesh.value))

import_gltf_primitives(g, mesh_index, primitive_index, primitives) ==
    IF primitive_index = Len(At(doc.meshes, mesh_index)) THEN Ok(primitives, g)
    ELSE primitive_pushed(mesh_index, primitive_index, primitives,
                          import_gltf_primitive(g, mesh_index, primitive_index))

import_gltf_mesh(g, mesh_index) ==
    IF ~InRange(meshes, mesh_index) THEN Err(<<"UnknownMeshIndex", mesh_index>>, g)
    ELSE IF IsSome(At(meshes, mesh_index)) THEN Ok(Unwrap(At(meshes, mesh_index)), g)
    ELSE import_gltf_primitives(g, mesh_index, 0, <<>>)

\* ------------------------------------------------------------- node indices

\* `node.index() as u16`
map_node_to_u16_index_truncating(index) == Ok(AsU16(index), None)

\* `node.index().try_into().map_err(|_| NodeIndexOutOfRange(node.index()))`
map_node_to_u16_index(index) ==
    IF index < U16Limit THEN Ok(index, None) ELSE Err(<<"NodeIndexOutOfRange", index>>, None)

\* .map(map_node_to_u16_index).collect::<Result<SmallVec, _>>(): the first error wins
RECURSIVE map_nodes_to_u16_indices(_)

indices_collected(head, rest) ==
    IF head.kind # "ok" THEN head
    ELSE IF rest.kind # "ok" THEN rest
    ELSE Ok(<<head.value>> \o rest.value, None)

map_nodes_to_u16_indices(indices) ==
    IF indices = <<>> THEN Ok(<<>>, None)
    ELSE indices_collected(map_node_to_u16_index(Head(indices)),
                           map_nodes_to_u16_indices(Tail(indices)))

\* ------------------------------------------------------ buffers and images
\* A reference string is a sequence of tokens: the separators ":", ";" and ","
\* are tokens of their own, a run of other characters is one token, and a file
\* name ends with its extension token (".png").  Offsets are token positions.

starts_with_data(uri) == Len(uri) >= 2 /\ uri[1] = "data" /\ uri[2] = ":"

\* str::find: the zero-based position of the first occurrence
find(uri, sep) ==
    LET hits == {k \in 1 .. Len(uri) : uri[k] = sep}
    IN  IF hits = {} THEN None ELSE Some(SetMin(hits) - 1)

ends_with(uri, ext) == Len(uri) >= 1 /\ uri[Len(uri)] = ext

\* a decoder that drops what it cannot decode
Base64DecodeLossy(text) ==
    CASE text = <<"iQc=">>  -> Ok(<<PngMagic, 7>>, None)
      [] text = <<"/wk=">>  -> Ok(<<JpegMagic, 9>>, None)
      [] text = <<"iQc=!">> -> Ok(<<PngMagic, 7>>, None)
      [] OTHER              -> Ok(<<>>, None)

\* base64::decode of the text after the first ",": the runs that are base64
Base64Decode(text) ==
    CASE text = <<>>        -> Ok(<<>>, None)
      [] text = <<"iQc=">>  -> Ok(<<PngMagic, 7>>, None)
      [] text = <<"/wk=">>  -> Ok(<<JpegMagic, 9>>, None)
      [] OTHER              -> Err(<<"Base64Error">>, None)

data_uri_to_bytes_and_type(uri) ==
    LET comma == find(uri, ",")
        \* without a "," the text decoded is the whole string less its first
        \* character, which holds the ":" of "data:" and is no base64
        bytes == IF IsSome(comma) THEN Base64Decode(SubSeq(uri, Unwrap(comma) + 2, Len(uri)))
                 ELSE Err(<<"Base64Error">>, None)
    IN  IF bytes.kind # "ok" THEN bytes
        ELSE IF ~IsSome(find(uri, ":")) \/ ~IsSome(find(uri, ";")) THEN Panic(None)
        ELSE IF Unwrap(find(uri, ":")) + 1 > Unwrap(find(uri, ";")) THEN Panic(None)
        ELSE Ok([bytes |-> bytes.value,
                 mime  |-> SubSeq(uri, Unwrap(find(uri, ":")) + 2, Unwrap(find(uri, ";")))],
                None)

\* std::fs::read of base_path/uri
fs_read(uri) ==
    LET hits == {k \in 1 .. Len(doc.files) : doc.files[k].name = uri}
    IN  IF hits = {} THEN Err(<<"IOError">>, None)
        ELSE Ok(doc.files[SetMin(hits)].bytes, None)

\* the value is <<bytes, blob left in the importer>>
import_gltf_buffer(buffer) ==
    IF buffer.source = "Bin"
    THEN IF IsSome(blob) THEN Ok(<<Unwrap(blob), None>>, None)
         ELSE Err(<<"BinSectionNotFound">>, None)
    ELSE IF starts_with_data(buffer.uri)
         THEN LET r == data_uri_to_bytes_and_type(buffer.uri)
              IN  IF r.kind # "ok" THEN r ELSE Ok(<<r.value.bytes, blob>>, None)
         ELSE LET r == fs_read(buffer.uri)
              IN  IF r.kind # "ok" THEN r ELSE Ok(<<r.value, blob>>, None)

\* a mime type is the token sequence of its text; the literals of the source
MimeText(mime) == IF Len(mime) = 1 THEN mime[1] ELSE "other"

\* image::load_from_memory_with_format: the payload decodes when it opens with
\* the magic number of the requested format; the pixels are what follows
load_from_memory_with_format(data, format) ==
    IF Len(data) >= 1 /\ data[1] = (IF format = "Png" THEN PngMagic ELSE JpegMagic)
    THEN Ok([data |-> Tail(data), width |-> Len(data) - 1, height |-> 1,
             format |-> "Rgba8Uint"], None)
    ELSE Err(<<"ImageLoadingFailed">>, None)

\* the two formats taken for each other
mime_of_extension_swapped(uri) ==
    IF ends_with(uri, ".png") THEN <<"image/jpeg">>
    ELSE IF ends_with(uri, ".jpg") \/ ends_with(uri, ".jpeg") THEN <<"image/png">>
    ELSE <<"application/octet-stream">>

\* `if uri.ends_with(".png") { .. } else if uri.ends_with(".jpg") || uri.ends_with(".jpeg") { .. } else { .. }`
mime_of_extension(uri) ==
    IF ends_with(uri, ".png") THEN <<"image/png">>
    ELSE IF ends_with(uri, ".jpg") \/ ends_with(uri, ".jpeg") THEN <<"image/jpeg">>
    ELSE <<"application/octet-stream">>

\* `buffer.get(from..=to)`: the range with its end included
get_range_inclusive(buffer, from, to) ==
    IF from > to \/ to >= Len(buffer) THEN None ELSE Some(SubSeq(buffer, from + 1, to + 1))

\* `buffer.get(from..to)`
get_range(buffer, from, to) ==
    IF from > to \/ to > Len(buffer) THEN None ELSE Some(SubSeq(buffer, from + 1, to))

import_gltf_image_source(image) ==
    IF image.source = "Uri"
    THEN LET read == IF starts_with_data(image.uri)
                     THEN data_uri_to_bytes_and_type(image.uri)
                     ELSE LET bytes == fs_read(image.uri)
                          IN  IF bytes.kind # "ok" THEN bytes
                              ELSE Ok([bytes |-> bytes.value,
                                       mime  |-> mime_of_extension(image.uri)],
                                      None)
         IN  IF read.kind # "ok" THEN read
             ELSE Ok([bytes |-> read.value.bytes,
                      mime  |-> IF IsSome(image.mime_type) THEN <<Unwrap(image.mime_type)>>
                                ELSE read.value.mime],
                     None)
    ELSE IF ~InRange(buffers, image.buffer)
         THEN Err(<<"UnknownBufferIndex", image.buffer>>, None)
         ELSE LET buffer == At(buffers, image.buffer)
                  from == image.offset
                  to == image.offset + image.length
              IN  IF ~IsSome(get_range(buffer, from, to))
                  THEN Err(<<"BufferRangeOutOfBounds", image.buffer, from, to>>, None)
                  ELSE Ok([bytes |-> Unwrap(get_range(buffer, from, to)),
                           mime  |-> <<Unwrap(image.mime_type)>>], None)

\* the decoder was called: its failure becomes ImageLoadingFailed.  The third
\* part of an image outcome is the decoder calls that were made for the image.
image_loaded(image_index, data, format, loaded) ==
    IF loaded.kind # "ok"
    THEN Err(<<"ImageLoadingFailed", image_index>>,
             <<[image_index |-> image_index, format |-> format, data |-> data]>>)
    ELSE Ok(loaded.value, <<[image_index |-> image_index, format |-> format, data |-> data]>>)

\* `match mime_type { "image/jpeg" => .., "image/png" => .., fmt => Err(..) }` and the load
image_decoded(image_index, data, mime) ==
    IF MimeText(mime) = "image/jpeg"
    THEN image_loaded(image_index, data, "Jpeg", load_from_memory_with_format(data, "Jpeg"))
    ELSE IF MimeText(mime) = "image/png"
    THEN image_loaded(image_index, data, "Png", load_from_memory_with_format(data, "Png"))
    ELSE Err(<<"UnknownImageFormat", mime, image_index>>, <<>>)

image_sourced(image_index, src) ==
    IF src.kind = "err" THEN Err(src.error, <<>>)
    ELSE IF src.kind = "panic" THEN Panic(<<>>)
    ELSE image_decoded(image_index, src.value.bytes, src.value.mime)

import_gltf_image(image, image_index) ==
    image_sourced(image_index, import_gltf_image_source(image))


\* ----------------------------------------------------------------- import

Returned(r) == /\ pc' = "returned"
               /\ result' = Some(r)

ReturnErr(e) == Returned([ok |-> FALSE, error |-> e])

\* an outcome that is not "ok" ends the import: `?` returns the error, a failed
\* unwrap or expect unwinds
Abort(outcome) ==
    IF outcome.kind = "err" THEN ReturnErr(outcome.error)
    ELSE /\ pc' = "panicked"
         /\ UNCHANGED result

\* import_default_scene, `file_name.rfind("/").unwrap()`, and then
\* Importer::import_default_scene, `document.default_scene().expect(..)`
Begin ==
    /\ pc = "start"
    /\ pc' = IF ~IsSome(find(doc.file_name, "/")) THEN "panicked"
             ELSE IF doc.default_scene THEN "buffers" ELSE "panicked"
    /\ UNCHANGED <<doc, blob, buffers, images, textures, materials, meshes, node_stack,
                   nodes, root_nodes, gfx, result, rendering_skin, decoded, sorted_as,
                   first>>
    /\ UNCHANGED <<renderVars, peerVars, worldVars>>

\* one pass of `for buffer in document.buffers()`, or the end of that loop
ImportBuffer ==
    /\ pc = "buffers"
    /\ IF Len(buffers) = Len(doc.buffers)
       THEN /\ pc' = "images"
            /\ UNCHANGED <<blob, buffers, result>>
       ELSE LET b == import_gltf_buffer(At(doc.buffers, Len(buffers)))
            IN  IF b.kind = "ok"
                THEN /\ buffers' = Append(buffers, b.value[1])
                     /\ blob' = b.value[2]
                     /\ UNCHANGED <<pc, result>>
                ELSE /\ Abort(b)
                     /\ blob' = IF At(doc.buffers, Len(buffers)).source = "Bin" THEN None ELSE blob
                     /\ UNCHANGED buffers
    /\ UNCHANGED <<doc, images, textures, materials, meshes, node_stack, nodes, root_nodes,
                   gfx, rendering_skin, decoded, sorted_as, first>>
    /\ UNCHANGED <<renderVars, peerVars, worldVars>>

\* one pass of `for image in document.images()`, or the end of that loop
ImportImage ==
    /\ pc = "images"
    /\ IF Len(images) = Len(doc.images)
       THEN /\ pc' = "roots"
            /\ UNCHANGED <<images, result, decoded>>
       ELSE LET i == import_gltf_image(At(doc.images, Len(images)), Len(images))
            IN  /\ decoded' = decoded \o i.gfx
                /\ IF i.kind = "ok"
                   THEN /\ images' = Append(images, i.value)
                        /\ UNCHANGED <<pc, result>>
                   ELSE /\ Abort(i)
                        /\ UNCHANGED images
    /\ UNCHANGED <<doc, blob, buffers, textures, materials, meshes, node_stack, nodes,
                   root_nodes, gfx, rendering_skin, sorted_as, first>>
    /\ UNCHANGED <<renderVars, peerVars, worldVars>>

\* root_nodes and the work list seeded with the scene's roots
BeginNodes ==
    /\ pc = "roots"
    /\ LET roots == map_nodes_to_u16_indices(doc.roots)
       IN  IF roots.kind = "ok"
           THEN /\ root_nodes' = roots.value
                /\ node_stack' = [k \in 1 .. Len(doc.roots) |-> <<doc.roots[k], None>>]
                /\ nodes' = <<>>
                /\ pc' = "nodes"
                /\ UNCHANGED result
           ELSE /\ Abort(roots)
                /\ UNCHANGED <<root_nodes, node_stack, nodes>>
    /\ UNCHANGED <<doc, blob, buffers, images, textures, materials, meshes, gfx,
                   rendering_skin, decoded, sorted_as, first>>
    /\ UNCHANGED <<renderVars, peerVars, worldVars>>

\* the skin of a node: joints and the optional skeleton root as u16 ids
skin_built(joints, skeleton) ==
    IF joints.kind # "ok" THEN joints
    ELSE IF skeleton.kind # "ok" THEN skeleton
    ELSE Ok(Some([joints |-> joints.value, skeleton |-> skeleton.value]), None)

import_skin(skin) ==
    IF ~IsSome(skin) THEN Ok(None, None)
    ELSE skin_built(map_nodes_to_u16_indices(Unwrap(skin).joints),
                    IF IsSome(Unwrap(skin).skeleton)
                    THEN SomeOf(map_node_to_u16_index(Unwrap(Unwrap(skin).skeleton)))
                    ELSE Ok(None, None))

\* `match node.mesh() { Some(mesh) => self.import_gltf_mesh(mesh)?, None => vec![] }`
import_node_meshes(g, mesh) ==
    IF IsSome(mesh) THEN import_gltf_mesh(g, Unwrap(mesh)) ELSE Ok(<<>>, g)

\* a best-effort import: a node whose mesh fails to build is kept without meshes
node_record_best_effort(g, node, parent, node_index, children, mesh, skin) ==
    IF node_index.kind # "ok" THEN Err(node_index.error, g)
    ELSE IF children.kind # "ok" THEN Err(children.error, g)
    ELSE IF skin.kind # "ok" THEN Err(skin.error, mesh.gfx)
    ELSE Ok(<<node_index.value,
              [parent    |-> parent,
               children  |-> children.value,
               transform |-> node.transform,
               meshes    |-> IF mesh.kind = "ok" THEN mesh.value ELSE <<>>,
               skin      |-> skin.value]>>,
            mesh.gfx)

\* the record one pass of the traversal loop pushes, or the first failure
node_record(g, node, parent, node_index, children, mesh, skin) ==
    IF node_index.kind # "ok" THEN Err(node_index.error, g)
    ELSE IF children.kind # "ok" THEN Err(children.error, g)
    ELSE IF mesh.kind # "ok" THEN mesh
    ELSE IF skin.kind # "ok" THEN Err(skin.error, mesh.gfx)
    ELSE Ok(<<node_index.value,
              [parent    |-> parent,
               children  |-> children.value,
               transform |-> node.transform,
               meshes    |-> mesh.value,
               skin      |-> skin.value]>>,
            mesh.gfx)

import_node(g, index, parent) ==
    node_record(g, At(doc.nodes, index), parent,
                map_node_to_u16_index(index),
                map_nodes_to_u16_indices(At(doc.nodes, index).children),
                import_node_meshes(g, At(doc.nodes, index).mesh),
                import_skin(At(doc.nodes, index).skin))

\* `node_stack.extend(node.children().zip(repeat(Some(node_index))))`
stack_extended(stack, children, node_index) ==
    stack \o [k \in 1 .. Len(children) |-> <<children[k], Some(node_index)>>]

\* the effect of one pass of the traversal loop, given the record it built
NodeVisited(top, rest, record) ==
    /\ gfx' = record.gfx
    /\ IF record.kind = "ok"
       THEN /\ node_stack' = stack_extended(rest, At(doc.nodes, top[1]).children,
                                            record.value[1])
            /\ nodes' = Append(nodes, record.value)
            /\ UNCHANGED <<pc, result>>
       ELSE /\ Abort(record)
            /\ UNCHANGED <<node_stack, nodes>>

\* one pass of the traversal loop: pop an entry, push its children, build its record
VisitNode ==
    /\ pc = "nodes"
    /\ node_stack # <<>>
    /\ Len(nodes) < MaxRecords
    /\ NodeVisited(node_stack[Len(node_stack)],
                   SubSeq(node_stack, 1, Len(node_stack) - 1),
                   import_node(gfx, node_stack[Len(node_stack)][1],
                               node_stack[Len(node_stack)][2]))
    /\ UNCHANGED <<doc, blob, buffers, images, textures, materials, meshes, root_nodes,
                   rendering_skin, decoded, sorted_as, first>>
    /\ UNCHANGED <<renderVars, peerVars, worldVars>>

\* nodes.sort_unstable_by(index): ascending by index; the order of records with
\* the same index is the implementation's choice, kept or reversed here
RECURSIVE SortedPositions(_, _, _)
SortedPositions(ns, left, reversed) ==
    IF left = {} THEN <<>>
    ELSE LET least == SetMin({ns[k][1] : k \in left})
             same == {k \in left : ns[k][1] = least}
             pick == IF reversed THEN -SetMin({-k : k \in same}) ELSE SetMin(same)
         IN  <<pick>> \o SortedPositions(ns, left \ {pick}, reversed)

sort_unstable_by_index(ns, reversed) ==
    LET order == SortedPositions(ns, 1 .. Len(ns), reversed)
    IN  [k \in 1 .. Len(ns) |-> ns[order[k]]]

\* the keys the comparator of the sort looks at
sort_keys(ns) == [k \in 1 .. Len(ns) |-> ns[k][1]]

\* a sort that breaks ties as it pleases each time it runs
sort_is_arbitrary(keys, order) == TRUE

\* sort_unstable_by is a fixed algorithm: the same keys in the same order come
\* out in the same order every time it runs
sort_is_repeatable(keys, order) ==
    (IsSome(sorted_as) /\ Unwrap(sorted_as).keys = keys) => Unwrap(sorted_as).order = order

\* `nodes.into_iter().map(|it| it.1).collect()`
records_of(sorted) == [k \in 1 .. Len(sorted) |-> sorted[k][2]]

\* the work list is empty: sort the records, drop the indices, return the Scene
Finish ==
    /\ pc = "nodes"
    /\ node_stack = <<>>
    /\ \E reversed \in BOOLEAN :
         /\ sort_is_repeatable(sort_keys(nodes), SortedPositions(nodes, 1 .. Len(nodes), reversed))
         /\ sorted_as' = Some([keys  |-> sort_keys(nodes),
                               order |-> SortedPositions(nodes, 1 .. Len(nodes), reversed)])
         /\ Returned([ok |-> TRUE,
                      scene |-> [transform  |-> Identity,
                                 nodes      |-> records_of(sort_unstable_by_index(nodes, reversed)),
                                 root_nodes |-> root_nodes]])
    /\ UNCHANGED <<doc, blob, buffers, images, textures, materials, meshes, node_stack,
                   nodes, root_nodes, gfx, rendering_skin, decoded, first>>
    /\ UNCHANGED <<renderVars, peerVars, worldVars>>


\* ----------------------------------------------------------------- render

\* World.the_scene: the imported Scene (World::new unwraps the import's result)
Imported == pc = "returned" /\ IsSome(result) /\ Unwrap(result).ok
the_scene == Unwrap(result).scene

\* World.the_sphere as imported: one node carrying the marker's one mesh
SphereHandle == -1
SphereScene ==
    [transform  |-> Identity,
     nodes      |-> << [parent |-> None, children |-> <<>>, transform |-> Identity,
                        meshes |-> << [inner |-> SphereHandle, index_count |-> 3,
                                       material |-> [normal |-> None, diffuse |-> None,
                                                     base_diffuse_color |-> <<1, 1, 1, 1>>]] >>,
                        skin |-> None] >>,
     root_nodes |-> <<0>>]

RenderedScene == IF rscene = "the_scene" THEN the_scene ELSE the_sphere

\* the product taken the other way round
walk_multiply_swapped(t, local) == mul_mat4(local, t)

\* `transform = transform.mul_mat4(current.transform.mat4())`
walk_multiply(t, local) == mul_mat4(t, local)

\* World::render up to the choice of mode
StartRender ==
    /\ Imported
    /\ rpc = "idle"
    /\ drawn' = <<>>
    /\ IF ~rendering_skin
       THEN /\ rpc' = "nodes"
            /\ rscene' = "the_scene"
            /\ rnode' = 0
            /\ UNCHANGED snode
       ELSE /\ rpc' = "skin_nodes"
            /\ snode' = 0
            /\ UNCHANGED <<rscene, rnode>>
    /\ UNCHANGED <<the_sphere, rjoint, current, transform, walked, skeleton_transform>>
    /\ UNCHANGED <<doc, rendering_skin>>
    /\ UNCHANGED <<importVars, peerVars, worldVars>>

\* render_scene: the head of `for node in &scene.nodes`, up to the transform loop
RenderNode ==
    /\ rpc = "nodes"
    /\ IF rnode = Len(RenderedScene.nodes)
       THEN \* render_scene returns, to World::render or into its joint loop
            /\ IF rscene = "the_scene"
               THEN /\ rpc' = "idle"
                    /\ UNCHANGED rjoint
               ELSE /\ rpc' = "skin_joints"
                    /\ rjoint' = rjoint + 1
            /\ UNCHANGED <<rnode, current, transform, walked>>
       ELSE IF At(RenderedScene.nodes, rnode).meshes = <<>>
       THEN /\ rnode' = rnode + 1
            /\ UNCHANGED <<rpc, rjoint, current, transform, walked>>
       ELSE /\ current' = rnode
            /\ transform' = At(RenderedScene.nodes, rnode).transform
            /\ walked' = <<rnode>>
            /\ rpc' = "walk"
            /\ UNCHANGED <<rnode, rjoint>>
    /\ UNCHANGED <<the_sphere, rscene, snode, skeleton_transform, drawn>>
    /\ UNCHANGED <<doc, rendering_skin>>
    /\ UNCHANGED <<importVars, peerVars, worldVars>>

\* one draw for the node, with its first mesh
DrawsOf_first_mesh(scene, which, node_id, world) ==
    LET node == At(scene.nodes, node_id)
    IN  << [scene |-> which, node |-> node_id, mesh |-> node.meshes[1].inner,
            model |-> mul_mat4(world, scene.transform)] >>

\* the draw operations of `for mesh in &node.meshes`
DrawsOf(scene, which, node_id, world) ==
    LET node == At(scene.nodes, node_id)
    IN  [k \in 1 .. Len(node.meshes) |->
            [scene |-> which, node |-> node_id, mesh |-> node.meshes[k].inner,
             model |-> mul_mat4(world, scene.transform)]]

\* render_scene: one turn of the 'transform loop; leaving it, the node's draws
WalkStep ==
    /\ rpc = "walk"
    /\ Len(walked) <= MaxWalk
    /\ LET scene == RenderedScene
           parent == At(scene.nodes, current).parent
       IN  IF IsSome(parent)
           THEN IF ~InRange(scene.nodes, Unwrap(parent))
                THEN /\ rpc' = "panicked"
                     /\ UNCHANGED <<rnode, current, transform, walked, drawn>>
                ELSE /\ current' = Unwrap(parent)
                     /\ transform' = walk_multiply(transform,
                                                   At(scene.nodes, Unwrap(parent)).transform)
                     /\ walked' = Append(walked, Unwrap(parent))
                     /\ UNCHANGED <<rpc, rnode, drawn>>
           ELSE /\ drawn' = drawn \o DrawsOf(scene, rscene, rnode, transform)
                /\ rnode' = rnode + 1
                /\ rpc' = "nodes"
                /\ UNCHANGED <<current, transform, walked>>
    /\ UNCHANGED <<the_sphere, rscene, snode, rjoint, skeleton_transform>>
    /\ UNCHANGED <<doc, rendering_skin>>
    /\ UNCHANGED <<importVars, peerVars, worldVars>>

\* the base taken from the skin's first joint when no skeleton root is declared
skeleton_base_first_joint(scene, skin) ==
    IF IsSome(skin.skeleton) THEN At(scene.nodes, Unwrap(skin.skeleton)).transform
    ELSE IF skin.joints # <<>> /\ InRange(scene.nodes, skin.joints[1])
    THEN At(scene.nodes, skin.joints[1]).transform
    ELSE scene.transform

\* `match skin.skeleton { Some(skeleton) => scene.nodes[skeleton].transform, None => scene.transform }`
skeleton_base(scene, skin) ==
    IF IsSome(skin.skeleton) THEN At(scene.nodes, Unwrap(skin.skeleton)).transform
    ELSE scene.transform

\* World::render, skin mode: the head of `for node in &scene.nodes`, up to the
\* choice of skeleton_transform
SkinNode ==
    /\ rpc = "skin_nodes"
    /\ IF snode = Len(the_scene.nodes)
       THEN /\ rpc' = "idle"
            /\ UNCHANGED <<snode, rjoint, skeleton_transform>>
       ELSE LET skin == At(the_scene.nodes, snode).skin
            IN  IF ~IsSome(skin)
                THEN /\ snode' = snode + 1
                     /\ UNCHANGED <<rpc, rjoint, skeleton_transform>>
                ELSE IF IsSome(Unwrap(skin).skeleton)
                        /\ ~InRange(the_scene.nodes, Unwrap(Unwrap(skin).skeleton))
                THEN /\ rpc' = "panicked"
                     /\ UNCHANGED <<snode, rjoint, skeleton_transform>>
                ELSE /\ skeleton_transform' = skeleton_base(the_scene, Unwrap(skin))
                     /\ rjoint' = 0
                     /\ rpc' = "skin_joints"
                     /\ UNCHANGED snode
    /\ UNCHANGED <<the_sphere, rscene, rnode, current, transform, walked, drawn>>
    /\ UNCHANGED <<doc, rendering_skin>>
    /\ UNCHANGED <<importVars, peerVars, worldVars>>

\* the head of `for &joint in &skin.joints`, up to the 'transform loop
SkinJoint ==
    /\ rpc = "skin_joints"
    /\ LET joints == Unwrap(At(the_scene.nodes, snode).skin).joints
       IN  IF rjoint = Len(joints)
           THEN /\ snode' = snode + 1
                /\ rpc' = "skin_nodes"
                /\ UNCHANGED <<current, transform, walked>>
           ELSE IF ~InRange(the_scene.nodes, At(joints, rjoint))
           THEN /\ rpc' = "panicked"
                /\ UNCHANGED <<snode, current, transform, walked>>
           ELSE /\ current' = At(joints, rjoint)
                /\ transform' = At(the_scene.nodes, At(joints, rjoint)).transform
                /\ walked' = <<At(joints, rjoint)>>
                /\ rpc' = "skin_walk"
                /\ UNCHANGED snode
    /\ UNCHANGED <<the_sphere, rscene, rnode, rjoint, skeleton_transform, drawn>>
    /\ UNCHANGED <<doc, rendering_skin>>
    /\ UNCHANGED <<importVars, peerVars, worldVars>>

\* the matrix the marker is placed with, before its scale
joint_placement(world, skeleton) == mul_mat4(world, skeleton)

\* one turn of the joint's 'transform loop; leaving it, the marker is placed and
\* render_scene is entered on the_sphere
SkinWalkStep ==
    /\ rpc = "skin_walk"
    /\ Len(walked) <= MaxWalk
    /\ LET parent == At(the_scene.nodes, current).parent
       IN  IF IsSome(parent)
           THEN IF ~InRange(the_scene.nodes, Unwrap(parent))
                THEN /\ rpc' = "panicked"
                     /\ UNCHANGED <<the_sphere, rscene, rnode, current, transform, walked>>
                ELSE /\ current' = Unwrap(parent)
                     /\ transform' = walk_multiply(transform,
                                                   At(the_scene.nodes, Unwrap(parent)).transform)
                     /\ walked' = Append(walked, Unwrap(parent))
                     /\ UNCHANGED <<rpc, the_sphere, rscene, rnode>>
           ELSE /\ the_sphere' = [the_sphere EXCEPT !.transform =
                                     mul_mat4(joint_placement(transform, skeleton_transform),
                                              QuarterScale)]
                /\ rscene' = "the_sphere"
                /\ rnode' = 0
                /\ rpc' = "nodes"
                /\ UNCHANGED <<current, transform, walked>>
    /\ UNCHANGED <<snode, rjoint, skeleton_transform, drawn>>
    /\ UNCHANGED <<doc, rendering_skin>>
    /\ UNCHANGED <<importVars, peerVars, worldVars>>

\* the Tab key, delivered between two frames
ToggleSkin ==
    /\ Imported
    /\ rpc = "idle"
    /\ rendering_skin' = ~rendering_skin
    /\ UNCHANGED doc
    /\ UNCHANGED <<importVars, renderVars, peerVars, worldVars>>

\* import_default_scene is called once more on the same file, with the same
\* GraphicsContext: a fresh Importer over the document as opened
Reimport ==
    /\ Imported
    /\ first = None
    /\ rpc = "idle"
    /\ first' = result
    /\ pc' = "start"
    /\ blob' = doc.blob
    /\ buffers' = <<>>
    /\ images' = <<>>
    /\ textures' = [k \in 1 .. Len(doc.textures) |-> None]
    /\ materials' = [k \in 1 .. Len(doc.materials) |-> None]
    /\ meshes' = [k \in 1 .. Len(doc.meshes) |-> None]
    /\ node_stack' = <<>>
    /\ nodes' = <<>>
    /\ root_nodes' = <<>>
    /\ result' = None
    /\ UNCHANGED <<doc, gfx, rendering_skin, decoded, sorted_as>>
    /\ UNCHANGED <<renderVars, peerVars, worldVars>>

\* ------------------------------------------------------ two calls at once

\* what one call of import_default_scene owns while it runs: its document, its
\* Importer and the locals of Importer::import_default_scene
OwnState ==
    [doc |-> doc, pc |-> pc, blob |-> blob, buffers |-> buffers, images |-> images,
     textures |-> textures, materials |-> materials, meshes |-> meshes,
     node_stack |-> node_stack, nodes |-> nodes, root_nodes |-> root_nodes,
     result |-> result]

\* import_default_scene up to `importer.import_default_scene(gltf.document)`:
\* a new Importer with the document's blob, no buffers, no images and empty
\* caches
Importer(document) ==
    [doc |-> document, pc |-> "start", blob |-> document.blob, buffers |-> <<>>,
     images |-> <<>>,
     textures |-> [k \in 1 .. Len(document.textures) |-> None],
     materials |-> [k \in 1 .. Len(document.materials) |-> None],
     meshes |-> [k \in 1 .. Len(document.meshes) |-> None],
     node_stack |-> <<>>, nodes |-> <<>>, root_nodes |-> <<>>, result |-> None]

\* the call goes on with the image list the other call has been filling
Resume_sharing_images(importer) ==
    /\ doc' = importer.doc
    /\ pc' = importer.pc
    /\ blob' = importer.blob
    /\ buffers' = importer.buffers
    /\ images' = images
    /\ textures' = importer.textures
    /\ materials' = importer.materials
    /\ meshes' = importer.meshes
    /\ node_stack' = importer.node_stack
    /\ nodes' = importer.nodes
    /\ root_nodes' = importer.root_nodes
    /\ result' = importer.result

\* a call goes on where it stood, with its own Importer and locals
Resume(importer) ==
    /\ doc' = importer.doc
    /\ pc' = importer.pc
    /\ blob' = importer.blob
    /\ buffers' = importer.buffers
    /\ images' = importer.images
    /\ textures' = importer.textures
    /\ materials' = importer.materials
    /\ meshes' = importer.meshes
    /\ node_stack' = importer.node_stack
    /\ nodes' = importer.nodes
    /\ root_nodes' = importer.root_nodes
    /\ result' = importer.result

\* while the second import of the document is in progress,
\* import_default_scene is called on another document with the same
\* GraphicsContext
CallPeer ==
    /\ IsSome(first)
    /\ other = None
    /\ pc \notin {"returned", "panicked"}
    /\ \E peer \in PairDocs \ {doc} : other' = Some(Importer(peer))
    /\ UNCHANGED switches
    /\ UNCHANGED <<doc, rendering_skin>>
    /\ UNCHANGED <<importVars, renderVars, worldVars>>

\* the processor turns from the running call to the other one
Switch ==
    /\ IsSome(other)
    /\ switches < MaxSwitches
    /\ Resume(Unwrap(other))
    /\ other' = Some(OwnState)
    /\ switches' = switches + 1
    /\ UNCHANGED <<gfx, rendering_skin, decoded, sorted_as, first>>
    /\ UNCHANGED <<renderVars, worldVars>>

\* ------------------------------------------------------------------ input

Min(a, b) == IF a < b THEN a ELSE b
Max(a, b) == IF a > b THEN a ELSE b

Keys == {"W", "A", "S", "D"}
ElementStates == {"Pressed", "Released"}

\* a handler whose release arm clears the axis whatever it holds
key_movement_clearing(m, key, state) ==
    CASE key = "W" -> [m EXCEPT ![2] = IF state = "Pressed" THEN 1 ELSE 0]
      [] key = "A" -> [m EXCEPT ![1] = IF state = "Pressed" THEN -1 ELSE 0]
      [] key = "S" -> [m EXCEPT ![2] = IF state = "Pressed" THEN -1 ELSE 0]
      [] key = "D" -> [m EXCEPT ![1] = IF state = "Pressed" THEN 1 ELSE 0]

\* the arms of `match input.virtual_keycode` for W, A, S and D; m[1] is
\* movement[0] of the source, m[2] is movement[1]
key_movement(m, key, state) ==
    CASE key = "W" -> [m EXCEPT ![2] = IF state = "Pressed" THEN 1 ELSE Min(0, @)]
      [] key = "A" -> [m EXCEPT ![1] = IF state = "Pressed" THEN -1 ELSE Max(0, @)]
      [] key = "S" -> [m EXCEPT ![2] = IF state = "Pressed" THEN -1 ELSE Max(0, @)]
      [] key = "D" -> [m EXCEPT ![1] = IF state = "Pressed" THEN 1 ELSE Min(0, @)]

\* DeviceEvent::Key for one of W, A, S, D, pressed or released
KeyInput ==
    /\ \E key \in Keys, state \in ElementStates :
          /\ movement' = key_movement(movement, key, state)
          /\ input' = Some(<<key, state>>)
    /\ UNCHANGED camera_position
    /\ UNCHANGED <<doc, rendering_skin>>
    /\ UNCHANGED <<importVars, renderVars, peerVars>>

\* MainEventsCleared: update drives the camera by the movement, forward by
\* movement[1] and sideways by movement[0]; the camera looks along x and one
\* frame at full speed is one unit
Update ==
    /\ camera_position[1] + movement[2] \in -MaxDrive .. MaxDrive
    /\ camera_position[2] + movement[1] \in -MaxDrive .. MaxDrive
    /\ camera_position' = <<camera_position[1] + movement[2],
                            camera_position[2] + movement[1]>>
    /\ UNCHANGED <<movement, input>>
    /\ UNCHANGED <<doc, rendering_skin>>
    /\ UNCHANGED <<importVars, renderVars, peerVars>>

\* ------------------------------------------------------------ specification

InitWith(documents) ==
    /\ doc \in documents
    /\ pc = "start"
    /\ blob = doc.blob
    /\ buffers = <<>>
    /\ images = <<>>
    /\ textures = [k \in 1 .. Len(doc.textures) |-> None]
    /\ materials = [k \in 1 .. Len(doc.materials) |-> None]
    /\ meshes = [k \in 1 .. Len(doc.meshes) |-> None]
    /\ node_stack = <<>>
    /\ nodes = <<>>
    /\ root_nodes = <<>>
    /\ gfx = [textures |-> <<>>, meshes |-> <<>>]
    /\ result = None
    /\ rendering_skin = FALSE
    /\ rpc = "idle"
    /\ the_sphere = SphereScene
    /\ rscene = "the_scene"
    /\ rnode = 0
    /\ snode = 0
    /\ rjoint = 0
    /\ current = 0
    /\ transform = Identity
    /\ walked = <<>>
    /\ skeleton_transform = Identity
    /\ drawn = <<>>
    /\ decoded = <<>>
    /\ sorted_as = None
    /\ first = None
    /\ other = None
    /\ switches = 0
    /\ movement = <<0, 0>>
    /\ camera_position = <<0, 0>>
    /\ input = None

Init == InitWith(Documents)

Next ==
    \/ Begin
    \/ ImportBuffer
    \/ ImportImage
    \/ BeginNodes
    \/ VisitNode
    \/ Finish
    \/ StartRender
    \/ RenderNode
    \/ WalkStep
    \/ SkinNode
    \/ SkinJoint
    \/ SkinWalkStep
    \/ ToggleSkin

Spec == Init /\ [][Next]_vars

\* the import alone, over documents with every kind of buffer, image and mesh
InitImport == InitWith(ImportDocs)

NextImport ==
    \/ Begin
    \/ ImportBuffer
    \/ ImportImage
    \/ BeginNodes
    \/ VisitNode
    \/ Finish

SpecImport == InitImport /\ [][NextImport]_vars

\* the same document imported twice, over every hierarchy
InitTwice == InitWith(GraphDocs)

NextTwice ==
    \/ Begin
    \/ ImportBuffer
    \/ ImportImage
    \/ BeginNodes
    \/ VisitNode
    \/ Finish
    \/ Reimport

\* the event loop's key and update events alone
InitKeys == InitWith({FanDoc})

NextKeys ==
    \/ KeyInput
    \/ Update

SpecKeys == InitKeys /\ [][NextKeys]_vars

\* a first import of a document, then its second import and the import of
\* another document in progress at once
InitPair == InitWith(PairDocs)

NextPair ==
    \/ Begin
    \/ ImportBuffer
    \/ ImportImage
    \/ BeginNodes
    \/ VisitNode
    \/ Finish
    \/ Reimport
    \/ CallPeer
    \/ Switch

SpecPair == InitPair /\ [][NextPair]_vars

SpecTwice == InitTwice /\ [][NextTwice]_vars


\* ------------------------------------------------- vocabulary of the claims

NodeIds == 0 .. (Len(doc.nodes) - 1)

\* how often the document lists node i as a child of some node
ChildReferences(i) ==
    Cardinality({<<p, k>> \in NodeIds \X (1 .. NumNodes + 1) :
                    k <= Len(At(doc.nodes, p).children) /\ At(doc.nodes, p).children[k] = i})

RECURSIVE ReachableFrom(_)
ReachableFrom(S) ==
    LET more == S \cup UNION {{At(doc.nodes, p).children[k] : k \in 1 .. Len(At(doc.nodes, p).children)} : p \in S}
    IN  IF more = S THEN S ELSE ReachableFrom(more)

Reachable == ReachableFrom({doc.roots[k] : k \in 1 .. Len(doc.roots)})

RECURSIVE HasChildCycle(_, _)
HasChildCycle(i, fuel) ==
    \E k \in 1 .. Len(At(doc.nodes, i).children) :
        LET c == At(doc.nodes, i).children[k]
        IN  fuel = 0 \/ HasChildCycle(c, fuel - 1)

\* the hierarchy glTF 2.0 asks for: disjoint strict trees, the scene's roots
\* being roots of trees; nodes outside the default scene are allowed
StrictTrees ==
    /\ \A i \in NodeIds : ChildReferences(i) <= 1
    /\ \A i \in NodeIds : ~HasChildCycle(i, Len(doc.nodes))
    /\ \A k \in 1 .. Len(doc.roots) : ChildReferences(doc.roots[k]) = 0
    /\ \A k, l \in 1 .. Len(doc.roots) : doc.roots[k] = doc.roots[l] => k = l

\* strict trees, and every node of the document in the default scene
WholeTree == StrictTrees /\ Reachable = NodeIds

\* local(n) x local(p1) x ... x local(root) along the ancestor chain of n
RECURSIVE ChainProduct(_, _)
ChainProduct(scene, n) ==
    IF ~IsSome(At(scene.nodes, n).parent) THEN At(scene.nodes, n).transform
    ELSE mul_mat4(At(scene.nodes, n).transform,
                  ChainProduct(scene, Unwrap(At(scene.nodes, n).parent)))

\* the textures a built Material holds
MaterialTextures(material) ==
    (IF IsSome(material.normal) THEN {Unwrap(material.normal)} ELSE {})
    \cup (IF IsSome(material.diffuse) THEN {Unwrap(material.diffuse)} ELSE {})

\* every Texture held by a mesh of a node record built so far
HeldTextures ==
    UNION {MaterialTextures(nodes[k][2].meshes[m].material) :
              <<k, m>> \in {<<k, m>> \in (1 .. Len(nodes)) \X (1 .. 2) :
                               m <= Len(nodes[k][2].meshes)}}

\* the source texture index a built Texture was created for
SourceOf(texture) == gfx.textures[texture.texture + 1].texture_index

\* ------------------------------------------------------------------ claims

\* how often material m of the document references texture t
TextureReferences(m, t) ==
    (IF At(doc.materials, m).normal = Some(t) THEN 1 ELSE 0)
    + (IF At(doc.materials, m).diffuse = Some(t) THEN 1 ELSE 0)

\* texture t is referenced by two distinct materials, once by each
SharedByTwoMaterials(t) ==
    /\ \A m \in Ids(doc.materials) : TextureReferences(m, t) <= 1
    /\ \E m1, m2 \in Ids(doc.materials) :
          m1 # m2 /\ TextureReferences(m1, t) = 1 /\ TextureReferences(m2, t) = 1

\* C1: a texture source index referenced by two distinct materials resolves to
\* one and the same built texture, and create_texture runs at most once for it.
C1_TextureBuiltOnce ==
    WholeTree =>
        \A t \in Ids(doc.textures) :
            SharedByTwoMaterials(t) =>
                /\ Cardinality({k \in 1 .. Len(gfx.textures) :
                                   gfx.textures[k].texture_index = t}) <= 1
                /\ \A a, b \in HeldTextures :
                      (SourceOf(a) = t /\ SourceOf(b) = t) => a.texture = b.texture

\* C2: the primitives of a mesh source index are constructed at most once,
\* however many visited nodes reference the mesh.
C2_MeshBuiltOnce ==
    WholeTree =>
        \A a, b \in 1 .. Len(gfx.meshes) :
            (/\ gfx.meshes[a].mesh_index = gfx.meshes[b].mesh_index
             /\ gfx.meshes[a].primitive_index = gfx.meshes[b].primitive_index) => a = b

\* C3: a primitive whose index list holds a value above 65535 never reaches
\* create_mesh (the import fails instead), so no index is stored reduced
\* modulo 2^16.
C3_NoIndexTruncated ==
    WholeTree =>
        \A k \in 1 .. Len(gfx.meshes) :
            LET source == Unwrap(At(At(doc.meshes, gfx.meshes[k].mesh_index),
                                    gfx.meshes[k].primitive_index).indices)
            IN  /\ \A j \in 1 .. Len(source) : source[j] < U16Limit
                /\ gfx.meshes[k].indices = source

\* the ids a node record stores
StoredIds(node) ==
    {node.parent[k] : k \in 1 .. Len(node.parent)}
    \cup {node.children[k] : k \in 1 .. Len(node.children)}
    \cup (IF IsSome(node.skin)
          THEN {Unwrap(node.skin).joints[k] : k \in 1 .. Len(Unwrap(node.skin).joints)}
               \cup {Unwrap(node.skin).skeleton[k] : k \in 1 .. Len(Unwrap(node.skin).skeleton)}
          ELSE {})

\* C4: in a returned Scene every parent, child, joint and skeleton-root id is
\* an index into Scene.nodes.
C4_IdsInRange ==
    (Imported /\ StrictTrees) =>
        \A k \in 1 .. Len(the_scene.nodes) :
            \A id \in StoredIds(the_scene.nodes[k]) : InRange(the_scene.nodes, id)

\* the ids that occur in a returned Scene
SceneIds(scene) ==
    {scene.root_nodes[k] : k \in 1 .. Len(scene.root_nodes)}
    \cup UNION {StoredIds(scene.nodes[k]) : k \in 1 .. Len(scene.nodes)}

\* the node record at `position` is the one built from source node i
BuiltFrom(scene, position, i) ==
    /\ InRange(scene.nodes, position)
    /\ At(scene.nodes, position).transform = At(doc.nodes, i).transform
    /\ At(scene.nodes, position).children = At(doc.nodes, i).children
    /\ IsSome(At(scene.nodes, position).skin) = IsSome(At(doc.nodes, i).skin)
    /\ (At(scene.nodes, position).meshes # <<>>) = IsSome(At(doc.nodes, i).mesh)

\* C5: in a returned Scene the record at position i is the record of source
\* node i, for every id i that occurs in the Scene.
C5_IndexAddressable ==
    (Imported /\ StrictTrees) =>
        \A i \in SceneIds(the_scene) : BuiltFrom(the_scene, i, i)

\* C6: in a returned Scene, the children of the node at index A hold B exactly
\* once whenever node B has parent Some(A).
C6_ParentListsChild ==
    (Imported /\ StrictTrees) =>
        \A b \in Ids(the_scene.nodes) :
            LET parent == At(the_scene.nodes, b).parent
            IN  IsSome(parent) =>
                   /\ InRange(the_scene.nodes, Unwrap(parent))
                   /\ Count(At(the_scene.nodes, Unwrap(parent)).children, b) = 1

\* C7: in a returned Scene the node at every root id has no parent.
C7_RootsHaveNoParent ==
    (Imported /\ StrictTrees) =>
        \A k \in 1 .. Len(the_scene.root_nodes) :
            /\ InRange(the_scene.nodes, the_scene.root_nodes[k])
            /\ At(the_scene.nodes, the_scene.root_nodes[k]).parent = None

\* following parent ids from n visits no node twice and ends at a parentless
\* node whose id is a root id
RECURSIVE EndsAtRoot(_, _, _)
EndsAtRoot(scene, n, seen) ==
    /\ InRange(scene.nodes, n)
    /\ n \notin seen
    /\ IF IsSome(At(scene.nodes, n).parent)
       THEN EndsAtRoot(scene, Unwrap(At(scene.nodes, n).parent), seen \cup {n})
       ELSE \E k \in 1 .. Len(scene.root_nodes) : scene.root_nodes[k] = n

\* C8: in a returned Scene the parent relation is a forest rooted at the root ids.
C8_ParentForest ==
    (Imported /\ StrictTrees) =>
        \A n \in Ids(the_scene.nodes) : EndsAtRoot(the_scene, n, {})

\* the Scene the running transform walk is over
WalkedScene == IF rpc = "walk" THEN RenderedScene ELSE the_scene

\* the transform walk is about to leave its loop: `current` has no parent
WalkLeaves ==
    /\ rpc \in {"walk", "skin_walk"}
    /\ ~IsSome(At(WalkedScene.nodes, current).parent)

\* the node the running walk started from
WalkStart ==
    IF rpc = "walk" THEN rnode
    ELSE At(Unwrap(At(the_scene.nodes, snode).skin).joints, rjoint)

\* C9: the world transform the renderer has computed when its walk leaves the
\* loop is local(n) x local(p1) x ... x local(root) along the ancestor chain.
C9_WorldTransformIsChainProduct ==
    WalkLeaves => transform = ChainProduct(WalkedScene, WalkStart)

\* a walk over a node, its parent and its grandparent is about to leave the loop
C9_Witness ==
    /\ WalkLeaves
    /\ WalkedScene = the_scene
    /\ Len(walked) >= 3
    /\ transform = ChainProduct(the_scene, WalkStart)

\* a marker was just placed for joint `rjoint` of the skin of node `snode`
MarkerPlaced == rpc \in {"nodes", "walk"} /\ rscene = "the_sphere"

\* C10: with a skeleton root declared, the joint's placement is its world
\* transform composed with the world transform of the skeleton root.
C10_SkeletonRootWorld ==
    (MarkerPlaced /\ WholeTree /\ IsSome(Unwrap(At(the_scene.nodes, snode).skin).skeleton)) =>
        the_sphere.transform =
            mul_mat4(mul_mat4(ChainProduct(the_scene, At(Unwrap(At(the_scene.nodes, snode).skin).joints, rjoint)),
                              ChainProduct(the_scene, Unwrap(Unwrap(At(the_scene.nodes, snode).skin).skeleton))),
                     QuarterScale)

\* C11: for a skin with joints and no skeleton root, the marker of a joint is
\* placed with the joint's world transform composed with the Scene's root
\* transform (and the marker's scale); no node's transform serves as the base.
C11_NoSkeletonUsesSceneRoot ==
    (MarkerPlaced /\ ~IsSome(Unwrap(At(the_scene.nodes, snode).skin).skeleton)) =>
        the_sphere.transform =
            mul_mat4(mul_mat4(ChainProduct(the_scene, At(Unwrap(At(the_scene.nodes, snode).skin).joints, rjoint)),
                              the_scene.transform),
                     QuarterScale)

\* the marker of a joint with a parent was placed for a skin without skeleton root
C11_Witness ==
    /\ MarkerPlaced
    /\ ~IsSome(Unwrap(At(the_scene.nodes, snode).skin).skeleton)
    /\ Len(walked) >= 2
    /\ the_sphere.transform =
           mul_mat4(mul_mat4(ChainProduct(the_scene, walked[1]), the_scene.transform),
                    QuarterScale)

\* the import returned an error
Failed == pc = "returned" /\ IsSome(result) /\ ~Unwrap(result).ok

\* how many Mesh values the record of source node i holds when all were built
MeshesOf(i) ==
    IF IsSome(At(doc.nodes, i).mesh) THEN Len(At(doc.meshes, Unwrap(At(doc.nodes, i).mesh)))
    ELSE 0

\* an Ok carries a Scene for which every buffer, every image and every
\* reachable node was processed in full
ReturnedWhole ==
    Imported =>
        /\ Len(buffers) = Len(doc.buffers)
        /\ Len(images) = Len(doc.images)
        /\ node_stack = <<>>
        /\ {nodes[k][1] : k \in 1 .. Len(nodes)} = Reachable
        /\ Len(the_scene.nodes) = Len(nodes)
        /\ \A k \in 1 .. Len(nodes) : Len(nodes[k][2].meshes) = MeshesOf(nodes[k][1])

\* the step that raises an error adds no buffer, image or node record, and
\* after it nothing of the import moves
EndsAtFirstError ==
    /\ (~Failed /\ Failed') =>
          /\ buffers' = buffers /\ images' = images /\ nodes' = nodes
          /\ "scene" \notin DOMAIN Unwrap(result')
    /\ Failed => UNCHANGED <<pc, blob, buffers, images, node_stack, nodes, root_nodes,
                             gfx, result, decoded>>

\* C12: an import returns Ok with a Scene built after every buffer, image and
\* reachable node was processed, or Err without a Scene; the first error ends
\* the import on the spot and no later stage work is done.
C12_AllOrNothing == []ReturnedWhole /\ [][EndsAtFirstError]_vars

\* an error ended the import in the middle of the traversal: records and GPU
\* meshes of earlier nodes exist, the work list is not empty, no Scene came out
C12_Witness ==
    /\ Failed
    /\ Len(nodes) >= 1
    /\ Len(gfx.meshes) >= 1
    /\ node_stack # <<>>
    /\ "scene" \notin DOMAIN Unwrap(result)

\* the joint and skeleton-root indices of the skin of source node i
SkinIndices(i) ==
    IF IsSome(At(doc.nodes, i).skin)
    THEN {Unwrap(At(doc.nodes, i).skin).joints[k] :
             k \in 1 .. Len(Unwrap(At(doc.nodes, i).skin).joints)}
         \cup {Unwrap(At(doc.nodes, i).skin).skeleton[k] :
                  k \in 1 .. Len(Unwrap(At(doc.nodes, i).skin).skeleton)}
    ELSE {}

\* every source index the import has to store: the nodes it reaches, and the
\* joints and skeleton roots of their skins
IndicesToStore == Reachable \cup UNION {SkinIndices(i) : i \in Reachable}

\* C13: when the index of a visited node, of a joint or of a skeleton root of
\* a visited node's skin is above 65535, the import ends with
\* NodeIndexOutOfRange carrying such an index; it never returns a Scene.
C13_NodeIndexTooLarge ==
    (pc = "returned" /\ \E i \in IndicesToStore : i >= U16Limit) =>
        /\ Failed
        /\ Unwrap(result).error[1] = "NodeIndexOutOfRange"
        /\ Unwrap(result).error[2] >= U16Limit
        /\ Unwrap(result).error[2] \in IndicesToStore

\* node 65535 got its record, then a skin naming node 65536 ended the import
C13_Witness ==
    /\ Failed
    /\ Unwrap(result).error = <<"NodeIndexOutOfRange", U16Limit>>
    /\ \E k \in 1 .. Len(nodes) : nodes[k][1] = LastU16
    /\ \E i \in Reachable : U16Limit \in SkinIndices(i)

\* the attributes primitive p of mesh m lacks
Missing(m, p) ==
    {name \in {"positions", "normals", "uvs", "indices"} :
        ~IsSome(At(At(doc.meshes, m), p)[name])}

\* the meshes the traversal builds: those of the nodes it reaches
MeshesToBuild ==
    {Unwrap(At(doc.nodes, i).mesh) : i \in {j \in Reachable : IsSome(At(doc.nodes, j).mesh)}}

\* the primitives, of meshes to build, that lack an attribute
Deficient ==
    {mp \in MeshesToBuild \X (0 .. 1) :
        mp[2] < Len(At(doc.meshes, mp[1])) /\ Missing(mp[1], mp[2]) # {}}

\* C14: when a primitive of a mesh the import builds lacks positions, normals,
\* uvs or indices, the import ends with RequiredMeshPropertyMissing naming a
\* missing attribute of such a primitive, its mesh index and its primitive index.
C14_MissingAttributeReported ==
    (pc \in {"returned", "panicked"} /\ Deficient # {}) =>
        /\ Failed
        /\ Unwrap(result).error[1] = "RequiredMeshPropertyMissing"
        /\ <<Unwrap(result).error[3], Unwrap(result).error[4]>> \in Deficient
        /\ Unwrap(result).error[2] \in Missing(Unwrap(result).error[3], Unwrap(result).error[4])

\* the reference starts with "data:", has a "," and what follows the first ","
\* is not base64
InvalidBase64(uri) ==
    /\ starts_with_data(uri)
    /\ \E c \in 1 .. Len(uri) :
          /\ uri[c] = ","
          /\ \A b \in 1 .. c - 1 : uri[b] # ","
          /\ \E k \in c + 1 .. Len(uri) : uri[k] \in {"!!", "iQc=!"}

\* the import ended while resolving buffer k
EndedAtBuffer(k) == Len(buffers) = k /\ pc \notin {"start", "buffers"}

\* the import ended while resolving image k
EndedAtImage(k) ==
    /\ Len(buffers) = Len(doc.buffers)
    /\ Len(images) = k
    /\ pc \notin {"start", "buffers", "images"}

BufferHasUri(k, P(_)) ==
    At(doc.buffers, k).source = "Uri" /\ P(At(doc.buffers, k).uri)

ImageHasUri(k, P(_)) ==
    At(doc.images, k).source = "Uri" /\ P(At(doc.images, k).uri)

\* C15: a buffer or image reference that starts with "data:" and carries an
\* invalid base64 payload makes the import return Base64Error; it does not
\* panic and no bytes are taken from it.
C15_InvalidBase64IsError ==
    /\ \A k \in Ids(doc.buffers) :
          BufferHasUri(k, InvalidBase64) =>
             /\ Len(buffers) <= k
             /\ EndedAtBuffer(k) => (Failed /\ Unwrap(result).error = <<"Base64Error">>)
    /\ \A k \in Ids(doc.images) :
          ImageHasUri(k, InvalidBase64) =>
             /\ Len(images) <= k
             /\ EndedAtImage(k) => (Failed /\ Unwrap(result).error = <<"Base64Error">>)

\* the second buffer, base64 followed by junk, ended the import with Base64Error
C15_Witness ==
    /\ Len(doc.buffers) = 2
    /\ BufferHasUri(1, InvalidBase64)
    /\ At(doc.buffers, 1).uri[Len(At(doc.buffers, 1).uri)] = "iQc=!"
    /\ EndedAtBuffer(1)
    /\ Failed
    /\ Unwrap(result).error = <<"Base64Error">>

\* the reference starts with "data:" and lacks the ";" or the "," of the prefix
MalformedPrefix(uri) ==
    /\ starts_with_data(uri)
    /\ \/ \A k \in 1 .. Len(uri) : uri[k] # ";"
       \/ \A k \in 1 .. Len(uri) : uri[k] # ","

\* C16: an inline-data reference with a malformed scheme prefix makes the
\* import return Base64Error, whatever the text that gets decoded.
C16_MalformedPrefixIsError ==
    /\ \A k \in Ids(doc.buffers) :
          BufferHasUri(k, MalformedPrefix) =>
             /\ Len(buffers) <= k
             /\ EndedAtBuffer(k) => (Failed /\ Unwrap(result).error = <<"Base64Error">>)
    /\ \A k \in Ids(doc.images) :
          ImageHasUri(k, MalformedPrefix) =>
             /\ Len(images) <= k
             /\ EndedAtImage(k) => (Failed /\ Unwrap(result).error = <<"Base64Error">>)

\* C17: every buffer declared as the embedded binary section resolves to the
\* asset's section when one is attached, and fails with BinSectionNotFound
\* only when none is, at any position of the buffer list.
C17_EmbeddedSectionForEveryBin ==
    \A k \in Ids(doc.buffers) :
        At(doc.buffers, k).source = "Bin" =>
            IF IsSome(doc.blob)
            THEN /\ ~EndedAtBuffer(k)
                 /\ Len(buffers) > k => At(buffers, k) = Unwrap(doc.blob)
            ELSE /\ Len(buffers) <= k
                 /\ EndedAtBuffer(k) =>
                       (Failed /\ Unwrap(result).error = <<"BinSectionNotFound">>)

\* the decoder calls made for image k
DecodesOf(k) == {j \in 1 .. Len(decoded) : decoded[j].image_index = k}

\* image k was imported, or the import ended on it
Processed(k) == Len(images) > k \/ EndedAtImage(k)

\* what holds of image k when it is sourced from bytes [from, to) of buffer b
RangeChecked(k, b, from, to) ==
    IF ~InRange(doc.buffers, b)
    THEN /\ Len(images) <= k
         /\ EndedAtImage(k) => (Failed /\ Unwrap(result).error = <<"UnknownBufferIndex", b>>)
    ELSE IF to > Len(At(buffers, b))
    THEN /\ Len(images) <= k
         /\ DecodesOf(k) = {}
         /\ EndedAtImage(k) =>
               (Failed /\ Unwrap(result).error = <<"BufferRangeOutOfBounds", b, from, to>>)
    ELSE /\ \A j \in DecodesOf(k) : decoded[j].data = SubSeq(At(buffers, b), from + 1, to)
         /\ (Processed(k) /\ Unwrap(At(doc.images, k).mime_type) \in {"image/png", "image/jpeg"})
               => DecodesOf(k) # {}
         /\ EndedAtImage(k) =>
               (Failed /\ Unwrap(result).error[1] \notin {"BufferRangeOutOfBounds",
                                                          "UnknownBufferIndex"})

\* C18: an image sourced from a byte range fails with UnknownBufferIndex when
\* the buffer does not exist, with BufferRangeOutOfBounds(buffer, offset,
\* offset + length) when the range ends past the buffer, and otherwise hands
\* exactly the bytes of the range to the decoder.
C18_ViewRange ==
    Len(buffers) = Len(doc.buffers) =>
        \A k \in Ids(doc.images) :
            At(doc.images, k).source = "View" =>
                RangeChecked(k, At(doc.images, k).buffer, At(doc.images, k).offset,
                             At(doc.images, k).offset + At(doc.images, k).length)

\* image 0 was decoded from bytes [2, 4) of the buffer, then the range [1, 5)
\* of image 1 ended the import
C18_Witness ==
    /\ At(doc.images, 0) = ViewImage(0, 2, 2, "image/jpeg")
    /\ At(doc.images, 1) = ViewImage(0, 1, 4, "image/png")
    /\ Len(images) = 1
    /\ Len(decoded) = 1
    /\ decoded[1].data = <<JpegMagic, 9>>
    /\ Failed
    /\ Unwrap(result).error = <<"BufferRangeOutOfBounds", 0, 1, 5>>

\* what a reference says about its mime type: the media type of a data
\* reference, the extension of a file name, <<>> when it says nothing known
InferredMime(uri) ==
    IF starts_with_data(uri)
    THEN IF \E k \in 1 .. Len(uri) : uri[k] = ";"
         THEN SubSeq(uri, 3, SetMin({k \in 1 .. Len(uri) : uri[k] = ";"}) - 1)
         ELSE <<>>
    ELSE IF uri[Len(uri)] = ".png" THEN <<"image/png">>
    ELSE IF uri[Len(uri)] \in {".jpg", ".jpeg"} THEN <<"image/jpeg">>
    ELSE <<>>

\* the mime type image k is to be decoded with: declared, else inferred
ExpectedMime(k) ==
    IF IsSome(At(doc.images, k).mime_type) THEN <<Unwrap(At(doc.images, k).mime_type)>>
    ELSE InferredMime(At(doc.images, k).uri)

ExpectedFormat(k) ==
    IF ExpectedMime(k) = <<"image/png">> THEN Some("Png")
    ELSE IF ExpectedMime(k) = <<"image/jpeg">> THEN Some("Jpeg")
    ELSE None

\* the errors raised before the bytes of an image are in hand
SourceErrors == {"IOError", "Base64Error", "UnknownBufferIndex", "BufferRangeOutOfBounds"}

\* C19: an image is decoded with the declared mime type when there is one,
\* else with the one inferred from the reference (.png: PNG; .jpg, .jpeg:
\* JPEG); when that is neither PNG nor JPEG the import fails with
\* UnknownImageFormat carrying the mime string and the image's index, and the
\* decoder is not called.
C19_MimeSelection ==
    \A k \in Ids(doc.images) :
        /\ \A j \in DecodesOf(k) : Some(decoded[j].format) = ExpectedFormat(k)
        /\ Len(images) > k => DecodesOf(k) # {}
        /\ (EndedAtImage(k) /\ Failed /\ Unwrap(result).error[1] \notin SourceErrors) =>
              IF IsSome(ExpectedFormat(k))
              THEN Unwrap(result).error = <<"ImageLoadingFailed", k>> /\ DecodesOf(k) # {}
              ELSE /\ Unwrap(result).error[1] = "UnknownImageFormat"
                   /\ Unwrap(result).error[3] = k
                   /\ ExpectedMime(k) # <<>> => Unwrap(result).error[2] = ExpectedMime(k)
                   /\ DecodesOf(k) = {}

\* "tex.jpeg" without a declared type was decoded as JPEG, then "tex.bmp",
\* also without one, was rejected before any decoding
C19_Witness ==
    /\ At(doc.images, 0) = UriImage(<<"tex", ".jpeg">>, None)
    /\ At(doc.images, 1) = UriImage(<<"tex", ".bmp">>, None)
    /\ Len(images) = 1
    /\ Len(decoded) = 1
    /\ decoded[1].format = "Jpeg"
    /\ Failed
    /\ Unwrap(result).error[1] = "UnknownImageFormat"
    /\ Unwrap(result).error[3] = 1

\* two Scenes with the same graph: node count, and position by position the
\* parent, the children, the skin's joints and skeleton root, the transform;
\* and the same roots
SameGraph(a, b) ==
    /\ Len(a.nodes) = Len(b.nodes)
    /\ a.root_nodes = b.root_nodes
    /\ \A k \in 1 .. Len(a.nodes) :
          k <= Len(b.nodes) =>
             /\ a.nodes[k].parent = b.nodes[k].parent
             /\ a.nodes[k].children = b.nodes[k].children
             /\ a.nodes[k].skin = b.nodes[k].skin
             /\ a.nodes[k].transform = b.nodes[k].transform

BuffersBeforeImages ==
    (images # <<>> \/ decoded # <<>>) => Len(buffers) = Len(doc.buffers)

\* every image is decoded before any texture, material or mesh is built
ImagesBeforeResources ==
    (gfx.textures # <<>> \/ gfx.meshes # <<>>) => Len(images) = Len(doc.images)

\* a step taken once the first node record exists builds no texture and no mesh
ResourcesBeforeNodes == nodes # <<>> => gfx' = gfx

\* C22: the stages of one import run in the order buffers, images, textures,
\* materials and meshes, node graph, and do not overlap: every buffer is
\* resolved before any image is decoded, every image is decoded before any
\* texture, material or mesh is built, and every texture, material and mesh is
\* built before the first node record is produced.
C22_StagesDoNotOverlap ==
    /\ [](BuffersBeforeImages /\ ImagesBeforeResources)
    /\ [][ResourcesBeforeNodes]_vars

\* the draws one pass of render_scene owes for the nodes before position n:
\* per node, one for each of its meshes, in order, with the node's world
\* transform times the Scene's root transform as the model matrix
RECURSIVE DrawsUpTo(_, _, _)
DrawsUpTo(scene, which, n) ==
    IF n = 0 THEN <<>>
    ELSE IF At(scene.nodes, n - 1).meshes = <<>> THEN DrawsUpTo(scene, which, n - 1)
    ELSE LET model == mul_mat4(ChainProduct(scene, n - 1), scene.transform)
         IN  DrawsUpTo(scene, which, n - 1)
             \o [k \in 1 .. Len(At(scene.nodes, n - 1).meshes) |->
                    [scene |-> which, node |-> n - 1,
                     mesh  |-> At(scene.nodes, n - 1).meshes[k].inner,
                     model |-> model]]

\* the last n entries of s
LastOf(s, n) == SubSeq(s, Len(s) - n + 1, Len(s))

\* render_scene is between two nodes of its loop, or in a node's walk
InPass == rpc \in {"nodes", "walk"}

OnlyLocalTransformsDiffer(a, b) ==
    /\ a.transform = b.transform
    /\ a.root_nodes = b.root_nodes
    /\ Len(a.nodes) = Len(b.nodes)
    /\ \A k \in 1 .. Len(a.nodes) :
          k <= Len(b.nodes) =>
             /\ a.nodes[k].parent = b.nodes[k].parent
             /\ a.nodes[k].children = b.nodes[k].children
             /\ a.nodes[k].meshes = b.nodes[k].meshes
             /\ a.nodes[k].skin = b.nodes[k].skin

\* one step leaves both Scenes of the World as imported, local transforms aside
ScenesKept ==
    /\ Imported => (Imported' /\ OnlyLocalTransformsDiffer(the_scene, the_scene'))
    /\ OnlyLocalTransformsDiffer(the_sphere, the_sphere')

\* C26: after import no step of update or render, in either rendering mode,
\* changes a Scene's root transform, its node sequence, or a node's parent,
\* children, meshes or skin; only a node's local transform may change.
C26_ScenesImmutable == [][ScenesKept]_vars

\* C27: the returned Scene holds exactly one record for each distinct source
\* node reachable from the default scene's roots: as many records as there are
\* distinct reachable indices, every reachable index among them.
C27_OneRecordPerReachableNode ==
    Imported =>
        /\ Len(the_scene.nodes) = Cardinality(Reachable)
        /\ {nodes[k][1] : k \in 1 .. Len(nodes)} = Reachable

\* the paths that start at node n, follow child references and repeat no node
\* of `seen`, n itself counted
RECURSIVE SimplePathsFrom(_, _, _)
SimplePathsFrom(n, seen, k) ==
    IF k > Len(At(doc.nodes, n).children) THEN 1
    ELSE (IF At(doc.nodes, n).children[k] \in seen THEN 0
          ELSE SimplePathsFrom(At(doc.nodes, n).children[k],
                               seen \cup {At(doc.nodes, n).children[k]}, 1))
         + SimplePathsFrom(n, seen, k + 1)

\* the paths from the default scene's roots that repeat no node
RECURSIVE RootPaths(_)
RootPaths(k) ==
    IF k > Len(doc.roots) THEN 0
    ELSE SimplePathsFrom(doc.roots[k], {doc.roots[k]}, 1) + RootPaths(k + 1)

\* C28: the work-list traversal terminates for every document, child cycles
\* reachable from the roots included: it pushes one record for each path from
\* a root that repeats no node and then runs out of work, so the records never
\* outnumber those paths.
C28_TraversalTerminates == Len(nodes) <= RootPaths(1)

\* C29: import_default_scene never panics: for every input, a document
\* without a default scene, a file name without a '/' and a primitive whose
\* normals or uvs are fewer than its positions included, it returns Ok(Scene)
\* or Err(ImportGltfError).
C29_NeverPanics == pc # "panicked"

\* the ancestor walk from node n of the Scene reaches a node without a parent
\* in at most `steps` moves, each to an index inside Scene.nodes
RECURSIVE WalkEnds(_, _, _)
WalkEnds(scene, n, steps) ==
    IF ~IsSome(At(scene.nodes, n).parent) THEN TRUE
    ELSE IF steps = 0 THEN FALSE
    ELSE IF ~InRange(scene.nodes, Unwrap(At(scene.nodes, n).parent)) THEN FALSE
    ELSE WalkEnds(scene, Unwrap(At(scene.nodes, n).parent), steps - 1)

\* C24: for every returned Scene and every node of it, the ancestor walk ends
\* after at most |Scene.nodes| steps and never indexes outside Scene.nodes,
\* also for documents with nodes outside the default scene or nodes reachable
\* along two paths; no walk of the renderer leaves the node table.
C24_AncestorWalkEnds ==
    /\ rpc # "panicked"
    /\ Imported =>
          \A n \in Ids(the_scene.nodes) : WalkEnds(the_scene, n, Len(the_scene.nodes))

SamplingFields == {"wrap_s", "wrap_t", "min_filter", "mag_filter"}

\* the sampling configuration a sampler stands for: an unspecified wrapping
\* mode is "Repeat", an unspecified filter "Linear"
SamplingOf(sampler) ==
    [f \in SamplingFields |->
        IF IsSome(sampler[f]) THEN Unwrap(sampler[f])
        ELSE IF f \in {"wrap_s", "wrap_t"} THEN "Repeat" ELSE "Linear"]

\* C23: every Texture built carries the sampling configuration of its source
\* sampler: the wrapping mode of each axis and the minification and
\* magnification filter, "Repeat" and "Linear" where the sampler leaves them
\* unspecified.
C23_TextureCarriesSampling ==
    \A t \in HeldTextures :
        /\ SamplingFields \subseteq DOMAIN t
        /\ [f \in SamplingFields |-> t[f]]
              = SamplingOf(At(doc.textures, SourceOf(t)).sampler)

\* the axis of `movement` a key acts on and the direction it pushes it to
KeyAxis(key) == IF key \in {"W", "S"} THEN 2 ELSE 1
KeyDirection(key) == IF key \in {"W", "D"} THEN 1 ELSE -1

\* every component of movement is -1, 0 or 1
MovementInRange == movement \in {-1, 0, 1} \X {-1, 0, 1}

\* the step that delivers the release of a key resets the key's axis to 0 if
\* the axis points in the key's direction, and leaves movement as it is if not
ReleaseKeepsOpposite ==
    \A key \in Keys :
        input' = Some(<<key, "Released">>) =>
            movement' = [movement EXCEPT ![KeyAxis(key)] =
                            IF @ = KeyDirection(key) THEN 0 ELSE @]

\* C30: after any sequence of press and release events of W, A, S and D each
\* component of movement is -1, 0 or 1, and releasing a key resets its axis to
\* 0 only if the axis points in that key's direction: releasing W (or D)
\* leaves -1 unchanged, releasing S (or A) leaves 1 unchanged.
C30_ReleaseResetsOwnDirection ==
    /\ []MovementInRange
    /\ [][ReleaseKeepsOpposite]_vars

\* W was released while the forward axis pointed backwards (S pressed after
\* W) and A was held: the forward axis kept -1; the camera has moved
C30_Witness ==
    /\ input = Some(<<"W", "Released">>)
    /\ movement = <<-1, -1>>
    /\ camera_position # <<0, 0>>

\* what a built Texture stands for: the source texture and the texels
TextureContent(held) ==
    IF IsSome(held)
    THEN Some([built |-> gfx.textures[Unwrap(held).texture + 1],
               width |-> Unwrap(held).width, height |-> Unwrap(held).height])
    ELSE None

\* what a built Mesh stands for: its buffers and its material's textures
MeshContent(mesh) ==
    [built |-> gfx.meshes[mesh.inner + 1], index_count |-> mesh.index_count,
     normal |-> TextureContent(mesh.material.normal),
     diffuse |-> TextureContent(mesh.material.diffuse),
     base_diffuse_color |-> mesh.material.base_diffuse_color]

\* the Scene's resources with every handle replaced by what it stands for
Contents(scene) ==
    [k \in 1 .. Len(scene.nodes) |->
        [m \in 1 .. Len(scene.nodes[k].meshes) |-> MeshContent(scene.nodes[k].meshes[m])]]

\* the GPU resources a Scene holds
HandlesOf(scene) ==
    UNION {{<<"mesh", scene.nodes[k].meshes[m].inner>>}
           \cup {<<"texture", t.texture>> :
                     t \in MaterialTextures(scene.nodes[k].meshes[m].material)} :
              <<k, m>> \in {<<k, m>> \in (1 .. Len(scene.nodes)) \X (1 .. 2) :
                               m <= Len(scene.nodes[k].meshes)}}

\* the running call is the second import of the document imported first
SecondRuns == IsSome(first) /\ IsSome(other) /\ switches % 2 = 0

\* the call that is not running has returned a Scene
OtherImported ==
    /\ IsSome(other)
    /\ Unwrap(other).pc = "returned"
    /\ Unwrap(Unwrap(other).result).ok

\* C21: the caches and the resolved buffer and image lists belong to one
\* import call: however two imports in progress interleave, an import ends as
\* it ends alone, with the same graph and resources of the same content, and
\* no resource built by one import is held by the Scene of the other.
C21_ImportsAreIsolated ==
    /\ (SecondRuns /\ pc \in {"returned", "panicked"}) =>
          /\ Imported
          /\ SameGraph(Unwrap(first).scene, the_scene)
          /\ Contents(Unwrap(first).scene) = Contents(the_scene)
    /\ (Imported /\ OtherImported) =>
          HandlesOf(the_scene) \cap HandlesOf(Unwrap(Unwrap(other).result).scene) = {}

\* both calls have returned a Scene after the processor turned twice: the
\* second import of the first document was interrupted by the whole import
\* of the other document or by its end, and built a texture and a mesh after
\* the other call had built one
C21_Witness ==
    /\ SecondRuns
    /\ switches = 2
    /\ Imported
    /\ OtherImported
    /\ Unwrap(other).doc # doc
    /\ Contents(Unwrap(first).scene) = Contents(the_scene)
    /\ HandlesOf(the_scene) # {}
    /\ \E t \in HandlesOf(the_scene), u \in HandlesOf(Unwrap(Unwrap(other).result).scene) :
          t[1] = "texture" /\ u[1] = "texture" /\ t[2] > u[2]
    /\ \E t \in HandlesOf(the_scene), u \in HandlesOf(Unwrap(Unwrap(other).result).scene) :
          t[1] = "mesh" /\ u[1] = "mesh" /\ t[2] > u[2]

====
